---- MODULE Spec2Model ----
(***************************************************************************)
(* Session and identity management of the knowledge2 frontend.             *)
(*                                                                         *)
(* The model holds the browser's localStorage (the Session Store), the     *)
(* AuthProvider of context/AuthContext.jsx (the Lifecycle Controller and   *)
(* Identity Cache) and the asynchronous calls in flight.  JavaScript is    *)
(* single threaded: every handler runs from one await to the next without  *)
(* interruption, so each action below is one such run, and the network     *)
(* decides when (and with what) an awaited call settles.                   *)
(***************************************************************************)
EXTENDS Integers, FiniteSets, Sequences, Bags, TLC

\* Token pairs the identity service can issue.
NumSessions == 2
\* Asynchronous calls in flight at the same time: of the AuthProvider alone,
\* and of the AuthProvider together with the pages.
MaxTasks == 3
MaxShared == 2

VARIABLES
    localStorage,   \* durable storage: access_token, refresh_token
    user,           \* AuthProvider.user
    loading,        \* AuthProvider.loading
    mounted,        \* the AuthProvider's mount effect has run
    route,          \* the location the router shows
    view,           \* the state of the page component mounted at that location
    tasks,          \* asynchronous calls in flight (a bag: two may be alike)
    last            \* the step just taken: operation, event, response status

ctl_vars == <<localStorage, user, loading, mounted>>
view_vars == <<route, view>>
vars == <<localStorage, user, loading, mounted, route, view, tasks, last>>

----------------------------------------------------------------------------
(* Values *)

Null == <<"null", 0>>
Sessions == 1..NumSessions
AccessToken(s) == <<"access", s>>
RefreshToken(s) == <<"refresh", s>>
AccessTokens == {AccessToken(s) : s \in Sessions}
RefreshTokens == {RefreshToken(s) : s \in Sessions}

\* The record GET /auth/me returns for a bearer token.
UserRecord(token) == <<"user", token[2]>>
Users == {UserRecord(t) : t \in AccessTokens}

\* JavaScript truthiness of a stored or received value.
Truthy(v) == v # Null

----------------------------------------------------------------------------
(* Session Store: window.localStorage *)

EmptyStorage == [k \in {"access_token", "refresh_token"} |-> Null]
getItem(ls, k) == ls[k]
setItem(ls, k, v) == [ls EXCEPT ![k] = v]
removeItem(ls, k) == [ls EXCEPT ![k] = Null]

\* What a page load can find persisted: nothing, or the pair of one login.
PersistedStorage ==
    {EmptyStorage} \cup
    {[access_token |-> AccessToken(s), refresh_token |-> RefreshToken(s)] : s \in Sessions}

----------------------------------------------------------------------------
(* The network *)

\* How an awaited HTTP call settles: a status, or no response at all.
\* "500" stands for every error status other than 401 and 400.
Statuses == {"200", "400", "401", "500", "network"}

\* How a settled POST /auth/login reads in the record of the step.
LoginOutcome(resp) ==
    IF resp.status = "200" /\ ~Truthy(resp.access_token)
    THEN "200 without access_token"
    ELSE resp.status

\* POST /auth/login: a token pair, a 2xx body without access_token, or a failure.
LoginResponses ==
    {[status |-> "200", access_token |-> AccessToken(s), refresh_token |-> RefreshToken(s)]
        : s \in Sessions}
    \cup {[status |-> "200", access_token |-> Null, refresh_token |-> Null]}
    \cup {[status |-> st, access_token |-> Null, refresh_token |-> Null]
        : st \in {"401", "500", "network"}}

\* GET /auth/me for a bearer token.
MeResponses(token) ==
    {[status |-> "200", data |-> UserRecord(token)]}
    \cup {[status |-> st, data |-> Null] : st \in {"401", "500", "network"}}

\* POST /auth/logout: revoked, refused with an error status, or no response.
LogoutResponses == {"200", "500", "network"}

----------------------------------------------------------------------------
(* Calls in flight *)

\* stale: a logout has finished since the call was sent.  live: the component
\* that sent the call is still mounted, so its setState calls take effect.
Task(kind, pc, bearer, refresh) ==
    [kind |-> kind, pc |-> pc, bearer |-> bearer, refresh |-> refresh,
     stale |-> FALSE, live |-> TRUE]

InFlight == BagToSet(tasks)
\* The model sends a call only below the bound: MaxTasks while no page of the
\* application is mounted beside the AuthProvider, MaxShared otherwise.
CanSend ==
    BagCardinality(tasks) < (IF route = "none" THEN MaxTasks ELSE MaxShared)
Send(ts, t) == ts (+) SetToBag({t})
\* Mutant: the settled call is sent again.
Settle_retry(ts, t) == ts
Settle(ts, t) == ts (-) SetToBag({t})

\* The step just taken: the operation, what it did, and for a settled call
\* how it settled and the data received.
Step(op, ev, resp, data) == [op |-> op, ev |-> ev, resp |-> resp, data |-> data]

\* A logout has run: identity requests still in flight were issued before it.
StaleTask(t) == IF t.pc = "me" THEN [t EXCEPT !.stale = TRUE] ELSE t
MarkStale(ts) == BagOfAll(StaleTask, ts)

----------------------------------------------------------------------------
(* Pages: what a freshly mounted page component holds *)

Routes == {"/login", "/home", "/change-password"}

NoErrors == [oldPassword |-> "", newPassword |-> "", confirmPassword |-> ""]

\* Mutant: the dashboard starts with useState(false) for loading.
Mount_notLoading(r) ==
    [effect |-> r = "/home",
     user |-> Null,
     loading |-> FALSE,
     error |-> "",
     navEffect |-> r = "/change-password",
     navUser |-> Null,
     errors |-> NoErrors,
     message |-> ""]

\* effect, navEffect: the page's, the Navbar's mount effect has yet to run.
\* user, loading, error: HomePage's state; loading and error also Login's, and
\* loading ChangePasswordPage's isLoading.  navUser: Navbar's user.
\* errors, message: ChangePasswordPage's state.
Mount(r) ==
    [effect |-> r = "/home",
     user |-> Null,
     loading |-> r = "/home",
     error |-> "",
     navEffect |-> r = "/change-password",
     navUser |-> Null,
     errors |-> NoErrors,
     message |-> ""]

ViewKinds ==
    {"Login.handleSubmit", "HomePage.fetchUserInfo", "HomePage.handleLogout",
     "Navbar.fetchUserInfo", "Navbar.handleLogout", "ChangePasswordPage.handleSubmit"}

\* Navigation unmounts the page: calls it sent go on, their setState calls are lost.
DetachTask(t) == IF t.kind \in ViewKinds THEN [t EXCEPT !.live = FALSE] ELSE t
Detach(ts) == BagOfAll(DetachTask, ts)

\* router.push(r) / navigate(r) from location rt with page state v and calls ts.
push(r, rt, v, ts) ==
    IF r = rt
    THEN [route |-> rt, view |-> v, tasks |-> ts]
    ELSE [route |-> r, view |-> Mount(r), tasks |-> Detach(ts)]

----------------------------------------------------------------------------
(* AuthProvider: context/AuthContext.jsx *)

\* Mutant: loading starts false, useState(false).
Load_notLoading(r) ==
    /\ localStorage \in PersistedStorage
    /\ user = Null
    /\ loading = FALSE
    /\ mounted = FALSE
    /\ route = r
    /\ view = Mount(r)
    /\ tasks = EmptyBag
    /\ last = Step("init", "none", "none", Null)

\* The page load: useState(null), useState(true), the page of location r
\* mounted; the storage is whatever an earlier visit left.
Load(r) ==
    /\ localStorage \in PersistedStorage
    /\ user = Null
    /\ loading = TRUE
    /\ mounted = FALSE
    /\ route = r
    /\ view = Mount(r)
    /\ tasks = EmptyBag
    /\ last = Step("init", "none", "none", Null)

\* The AuthProvider with one of the application's pages.
Init == \E r \in Routes : Load(r)

\* The AuthProvider alone, no page of the application beside it.
InitCtl == Load("none")

\* value.isAuthenticated
isAuthenticated == Truthy(user)

\* The session state a consumer of the context observes from loading and
\* isAuthenticated.
SessionState ==
    IF loading THEN "unknown"
    ELSE IF isAuthenticated THEN "authenticated" ELSE "unauthenticated"

\* fetchUser up to its await: the token it reads and sends as the bearer,
\* and whether it goes on to send the request.
fetchUser_token(ls) == getItem(ls, "access_token")
\* Mutant: the test of the token is missing.
fetchUser_sends_always(token) == TRUE
fetchUser_sends(token) == Truthy(token)

\* Mutant: the 401 branch removes one key per call, access_token first.
fetchUser_settle_oneKey(resp, ls, u) ==
    IF resp.status = "200"
    THEN [localStorage |-> ls, user |-> resp.data]
    ELSE IF resp.status = "401"
         THEN [localStorage |->
                    IF Truthy(getItem(ls, "access_token"))
                    THEN removeItem(ls, "access_token")
                    ELSE removeItem(ls, "refresh_token"),
               user |-> Null]
         ELSE [localStorage |-> ls, user |-> u]

\* fetchUser after its await: setUser on success, the catch block otherwise.
fetchUser_settle(resp, ls, u) ==
    IF resp.status = "200"
    THEN [localStorage |-> ls, user |-> resp.data]
    ELSE IF resp.status = "401"
         THEN [localStorage |-> removeItem(removeItem(ls, "access_token"), "refresh_token"),
               user |-> Null]
         ELSE [localStorage |-> ls, user |-> u]

\* Mutant: fetchUser has no finally block.
fetchUser_finally_missing(l) == l

\* fetchUser's finally block: setLoading(false).
fetchUser_finally(l) == FALSE

\* The mount effect: fetchUser() runs to its await, or returns when no token
\* is stored.
AuthProvider_mount ==
    /\ UNCHANGED view_vars
    /\ ~mounted
    /\ mounted' = TRUE
    /\ LET token == fetchUser_token(localStorage) IN
        IF ~fetchUser_sends(token)
        THEN /\ loading' = fetchUser_finally(loading)
             /\ last' = Step("bootstrap", "noToken", "none", Null)
             /\ UNCHANGED <<localStorage, user, tasks>>
        ELSE /\ CanSend
             /\ tasks' = Send(tasks, Task("bootstrap", "me", token, Null))
             /\ last' = Step("bootstrap", "sent", "none", Null)
             /\ UNCHANGED <<localStorage, user, loading>>

\* GET /auth/me settles for a fetchUser in flight (the mount effect's, or the
\* one login awaits, after which login returns true).
fetchUser_response(t) ==
    /\ UNCHANGED view_vars
    /\ t.kind \in {"bootstrap", "login"}
    /\ t.pc = "me"
    /\ \E resp \in MeResponses(t.bearer) :
        LET after == fetchUser_settle(resp, localStorage, user) IN
        /\ localStorage' = after.localStorage
        /\ user' = after.user
        /\ loading' = fetchUser_finally(loading)
        /\ tasks' = Settle(tasks, t)
        /\ last' = Step(t.kind, IF t.stale THEN "staleMe" ELSE "me", resp.status, resp.data)
    /\ UNCHANGED mounted

\* login up to its await: POST /auth/login is sent.
login ==
    /\ UNCHANGED view_vars
    /\ mounted
    /\ CanSend
    /\ tasks' = Send(tasks, Task("login", "post", Null, Null))
    /\ last' = Step("login", "sent", "none", Null)
    /\ UNCHANGED ctl_vars

\* Mutant: every resolved POST is taken for a login, its body unchecked.
login_accepted_unchecked(resp) == resp.status = "200"

\* The awaited POST resolved (axios rejects every status outside 2xx) and
\* login's test of response.data.access_token passed.
login_accepted(resp) == resp.status = "200" /\ Truthy(resp.access_token)

\* Mutant: only the access token is stored.
login_store_accessOnly(resp, ls) == setItem(ls, "access_token", resp.access_token)

\* Mutant: a pair already stored is kept, the first write wins.
login_store_keepFirst(resp, ls) ==
    IF Truthy(getItem(ls, "access_token"))
    THEN ls
    ELSE setItem(setItem(ls, "access_token", resp.access_token),
                 "refresh_token", resp.refresh_token)

\* login's two setItem calls.
login_store(resp, ls) ==
    setItem(setItem(ls, "access_token", resp.access_token),
            "refresh_token", resp.refresh_token)

\* POST /auth/login settles: the pair is stored and fetchUser is awaited, or
\* login returns false, or the rejected call throws to login's caller.
login_response(t) ==
    /\ UNCHANGED view_vars
    /\ t.kind = "login"
    /\ t.pc = "post"
    /\ \E resp \in LoginResponses :
        IF login_accepted(resp)
        THEN LET stored == login_store(resp, localStorage)
                 token == fetchUser_token(stored) IN
             /\ localStorage' = stored
             /\ IF fetchUser_sends(token)
                THEN /\ tasks' = Send(Settle(tasks, t), Task("login", "me", token, Null))
                     /\ loading' = loading
                ELSE /\ tasks' = Settle(tasks, t)
                     /\ loading' = fetchUser_finally(loading)
             /\ last' = Step("login", "stored", LoginOutcome(resp), resp.access_token)
             /\ UNCHANGED <<user, mounted>>
        ELSE /\ tasks' = Settle(tasks, t)
             /\ last' = Step("login", IF resp.status = "200" THEN "false" ELSE "threw",
                             LoginOutcome(resp), Null)
             /\ UNCHANGED ctl_vars

\* Mutant: the tokens are removed only when the revoke call succeeded.
logout_finally_onSuccess(resp, ls) ==
    IF resp \in {"200", "none"}
    THEN removeItem(removeItem(ls, "access_token"), "refresh_token")
    ELSE ls

\* logout's finally block: both removeItem calls, whatever the revoke call did.
logout_finally(resp, ls) ==
    removeItem(removeItem(ls, "access_token"), "refresh_token")

\* Mutant: the revoke call is sent whether a token is stored or not.
logout_revokes_always(token) == TRUE

\* logout's and handleLogout's if (token): the revoke call is sent only for
\* a stored access token.
logout_revokes(token) == Truthy(token)

\* logout up to its await: POST /auth/logout is sent when a token is stored;
\* with none, try and finally run through at once.
logout ==
    /\ UNCHANGED view_vars
    /\ mounted
    /\ LET token == getItem(localStorage, "access_token")
           refreshToken == getItem(localStorage, "refresh_token") IN
        IF logout_revokes(token)
        THEN /\ CanSend
             /\ tasks' = Send(tasks, Task("logout", "revoke", token, refreshToken))
             /\ last' = Step("logout", "sent", "none", Null)
             /\ UNCHANGED ctl_vars
        ELSE /\ localStorage' = logout_finally("none", localStorage)
             /\ user' = Null
             /\ tasks' = MarkStale(tasks)
             /\ last' = Step("logout", "finished", "none", Null)
             /\ UNCHANGED <<loading, mounted>>

\* POST /auth/logout settles, resolved or rejected: catch logs, finally clears.
logout_response(t) ==
    /\ UNCHANGED view_vars
    /\ t.kind = "logout"
    /\ t.pc = "revoke"
    /\ \E resp \in LogoutResponses :
        /\ localStorage' = logout_finally(resp, localStorage)
        /\ user' = Null
        /\ tasks' = MarkStale(Settle(tasks, t))
        /\ last' = Step("logout", "finished", resp, Null)
    /\ UNCHANGED <<loading, mounted>>

\* The AuthProvider alone: login, logout, the mount effect and their
\* completions in any interleaving.
NextCtl ==
    \/ AuthProvider_mount
    \/ login
    \/ logout
    \/ \E t \in InFlight : login_response(t)
    \/ \E t \in InFlight : fetchUser_response(t)
    \/ \E t \in InFlight : logout_response(t)

SpecCtl == InitCtl /\ [][NextCtl]_vars

\* The AuthProvider when React runs the mount effect and every identity
\* request sent receives a response or an error.
SpecCtlFair ==
    /\ InitCtl
    /\ [][NextCtl]_vars
    /\ WF_vars(AuthProvider_mount)
    /\ WF_vars(\E t \in InFlight : fetchUser_response(t))

----------------------------------------------------------------------------
(* Login page: pages/Login.jsx *)

\* handleSubmit up to its await; the submit button is disabled while loading.
Login_handleSubmit ==
    /\ route = "/login"
    /\ ~view.loading
    /\ CanSend
    /\ view' = [view EXCEPT !.loading = TRUE, !.error = ""]
    /\ tasks' = Send(tasks, Task("Login.handleSubmit", "post", Null, Null))
    /\ last' = Step("Login.handleSubmit", "sent", "none", Null)
    /\ UNCHANGED <<ctl_vars, route>>

\* Mutant: every resolved POST is taken for a login, its body unchecked.
Login_accepted_unchecked(resp) == resp.status = "200"

\* The awaited POST resolved and handleSubmit's test of
\* response.data.access_token passed.
Login_accepted(resp) == resp.status = "200" /\ Truthy(resp.access_token)

\* handleSubmit's two setItem calls.
Login_store(resp, ls) ==
    setItem(setItem(ls, "access_token", resp.access_token),
            "refresh_token", resp.refresh_token)

\* handleSubmit's catch block: one message for every rejected call, whatever
\* the error; a resolved call leaves the error as it is.
Login_catch(resp, error) == IF resp.status = "200" THEN error ELSE "login failed"

\* POST /auth/login settles: the pair is stored and the page navigates to
\* /home, or nothing is stored; a rejected call sets the error.
Login_handleSubmit_response(t) ==
    /\ t.kind = "Login.handleSubmit"
    /\ \E resp \in LoginResponses :
        LET ts == Settle(tasks, t)
            v1 == IF ~t.live THEN view
                  ELSE [view EXCEPT !.loading = FALSE, !.error = Login_catch(resp, @)]
        IN  IF Login_accepted(resp)
            THEN LET nav == push("/home", route, v1, ts) IN
                 /\ localStorage' = Login_store(resp, localStorage)
                 /\ route' = nav.route
                 /\ view' = nav.view
                 /\ tasks' = nav.tasks
                 /\ last' = Step("Login.handleSubmit", "stored", LoginOutcome(resp),
                                 resp.access_token)
            ELSE /\ view' = v1
                 /\ tasks' = ts
                 /\ last' = Step("Login.handleSubmit",
                                 IF resp.status = "200" THEN "ignored" ELSE "failed",
                                 LoginOutcome(resp), Null)
                 /\ UNCHANGED <<localStorage, route>>
    /\ UNCHANGED <<user, loading, mounted>>

----------------------------------------------------------------------------
(* Dashboard: app/home/page.tsx (pages/Home.jsx is the same code on react-router) *)

\* The dashboard's content (with the Navbar) is on screen.
HomePage_content == route = "/home" /\ ~view.loading /\ view.error = ""

\* The mount effect: fetchUserInfo runs to its await, or redirects when no
\* token is stored.
HomePage_mount ==
    /\ route = "/home"
    /\ view.effect
    /\ LET token == getItem(localStorage, "access_token") IN
        IF ~Truthy(token)
        THEN LET nav == push("/login", route,
                             [view EXCEPT !.effect = FALSE, !.loading = FALSE], tasks) IN
             /\ route' = nav.route
             /\ view' = nav.view
             /\ tasks' = nav.tasks
             /\ last' = Step("HomePage.fetchUserInfo", "noToken", "none", Null)
        ELSE /\ CanSend
             /\ tasks' = Send(tasks, Task("HomePage.fetchUserInfo", "me", token, Null))
             /\ view' = [view EXCEPT !.effect = FALSE]
             /\ last' = Step("HomePage.fetchUserInfo", "sent", "none", Null)
             /\ UNCHANGED route
    /\ UNCHANGED ctl_vars

\* fetchUserInfo's catch block on the stored tokens.
HomePage_fetchUserInfo_catch(resp, ls) ==
    IF resp.status = "401"
    THEN removeItem(removeItem(ls, "access_token"), "refresh_token")
    ELSE ls

\* GET /auth/me settles for the dashboard.
HomePage_fetchUserInfo_response(t) ==
    /\ t.kind = "HomePage.fetchUserInfo"
    /\ \E resp \in MeResponses(t.bearer) :
        LET ts == Settle(tasks, t)
            v1 == IF ~t.live THEN view
                  ELSE IF resp.status = "200"
                       THEN [view EXCEPT !.user = resp.data, !.navUser = resp.data,
                                         !.loading = FALSE]
                       ELSE IF resp.status = "401"
                            THEN [view EXCEPT !.loading = FALSE]
                            ELSE [view EXCEPT !.error = "fetch failed", !.loading = FALSE]
            nav == IF resp.status = "401"
                   THEN push("/login", route, v1, ts)
                   ELSE [route |-> route, view |-> v1, tasks |-> ts]
        IN  /\ localStorage' = IF resp.status = "200" THEN localStorage
                               ELSE HomePage_fetchUserInfo_catch(resp, localStorage)
            /\ route' = nav.route
            /\ view' = nav.view
            /\ tasks' = nav.tasks
            /\ last' = Step("HomePage.fetchUserInfo", "me", resp.status, resp.data)
    /\ UNCHANGED <<user, loading, mounted>>

----------------------------------------------------------------------------
(* handleLogout of the Navbar (components/Navbar) and of the dashboard *)

\* The Navbar is on screen: inside the dashboard's content, or on the
\* password page.
Navbar_rendered == HomePage_content \/ route = "/change-password"

\* Mutant: the finally block removes the access token only.
handleLogout_finally_accessOnly(resp, ls) == removeItem(ls, "access_token")

\* handleLogout's finally block: both removeItem calls.
handleLogout_finally(resp, ls) ==
    removeItem(removeItem(ls, "access_token"), "refresh_token")

\* handleLogout up to its await; with no token stored it runs through.
handleLogout(kind) ==
    /\ LET token == getItem(localStorage, "access_token")
           refreshToken == getItem(localStorage, "refresh_token") IN
        IF logout_revokes(token)
        THEN /\ CanSend
             /\ tasks' = Send(tasks, Task(kind, "revoke", token, refreshToken))
             /\ last' = Step(kind, "sent", "none", Null)
             /\ UNCHANGED <<localStorage, route, view>>
        ELSE LET nav == push("/login", route, view, MarkStale(tasks)) IN
             /\ localStorage' = handleLogout_finally("none", localStorage)
             /\ route' = nav.route
             /\ view' = nav.view
             /\ tasks' = nav.tasks
             /\ last' = Step(kind, "finished", "none", Null)
    /\ UNCHANGED <<user, loading, mounted>>

\* POST /auth/logout settles, resolved or rejected.
handleLogout_response(t) ==
    /\ t.kind \in {"Navbar.handleLogout", "HomePage.handleLogout"}
    /\ \E resp \in LogoutResponses :
        LET nav == push("/login", route, view, MarkStale(Settle(tasks, t))) IN
        /\ localStorage' = handleLogout_finally(resp, localStorage)
        /\ route' = nav.route
        /\ view' = nav.view
        /\ tasks' = nav.tasks
        /\ last' = Step(t.kind, "finished", resp, Null)
    /\ UNCHANGED <<user, loading, mounted>>

HomePage_handleLogout == HomePage_content /\ handleLogout("HomePage.handleLogout")

Navbar_handleLogout == Navbar_rendered /\ handleLogout("Navbar.handleLogout")

----------------------------------------------------------------------------
(* Navbar: components/Navbar *)

\* The mount effect without a currentUser prop: fetchUserInfo runs to its
\* await, or returns when no token is stored.
Navbar_mount ==
    /\ route = "/change-password"
    /\ view.navEffect
    /\ LET token == getItem(localStorage, "access_token") IN
        IF ~Truthy(token)
        THEN /\ last' = Step("Navbar.fetchUserInfo", "noToken", "none", Null)
             /\ UNCHANGED tasks
        ELSE /\ CanSend
             /\ tasks' = Send(tasks, Task("Navbar.fetchUserInfo", "me", token, Null))
             /\ last' = Step("Navbar.fetchUserInfo", "sent", "none", Null)
    /\ view' = [view EXCEPT !.navEffect = FALSE]
    /\ UNCHANGED <<ctl_vars, route>>

\* GET /auth/me settles for the Navbar: setUser, or console.error.
Navbar_fetchUserInfo_response(t) ==
    /\ t.kind = "Navbar.fetchUserInfo"
    /\ \E resp \in MeResponses(t.bearer) :
        /\ view' = IF t.live /\ resp.status = "200"
                   THEN [view EXCEPT !.navUser = resp.data]
                   ELSE view
        /\ last' = Step("Navbar.fetchUserInfo", "me", resp.status, resp.data)
    /\ tasks' = Settle(tasks, t)
    /\ UNCHANGED <<ctl_vars, route>>

\* The Navbar's links: router.push('/home'), router.push('/change-password').
Navbar_push(r) ==
    /\ Navbar_rendered
    /\ r # route
    /\ LET nav == push(r, route, view, tasks) IN
        /\ route' = nav.route
        /\ view' = nav.view
        /\ tasks' = nav.tasks
    /\ last' = Step("Navbar.push", r, "none", Null)
    /\ UNCHANGED ctl_vars

----------------------------------------------------------------------------
(* Password page: app/change-password/page.tsx *)

MinPasswordLength == 6

\* The forms submitted: a valid one, one with a reused password, one with an
\* empty, a short and an unconfirmed field.
FormData ==
    {[oldPassword |-> "abc", newPassword |-> "secret1", confirmPassword |-> "secret1"],
     [oldPassword |-> "secret1", newPassword |-> "secret1", confirmPassword |-> "secret1"],
     [oldPassword |-> "", newPassword |-> "abc", confirmPassword |-> "secret1"]}

validateForm(formData) ==
    [oldPassword |->
        IF formData.oldPassword = "" THEN "required" ELSE "",
     newPassword |->
        IF formData.oldPassword = formData.newPassword THEN "same as old"
        ELSE IF formData.newPassword = "" THEN "required"
        ELSE IF Len(formData.newPassword) < MinPasswordLength THEN "too short"
        ELSE "",
     confirmPassword |->
        IF formData.confirmPassword = "" THEN "required"
        ELSE IF formData.newPassword # formData.confirmPassword THEN "mismatch"
        ELSE ""]

\* The detail message of a 400 response.
ServiceDetail == "detail of the service"

\* How a settled PUT /auth/password reads in the record of the step: its
\* status, and for a 400 whether the body could be read and had a detail.
PasswordOutcome(resp) ==
    IF resp.status = "400" /\ ~resp.json THEN "400 not JSON"
    ELSE IF resp.status = "400" /\ resp.detail = "" THEN "400 without detail"
    ELSE resp.status

\* PUT /auth/password: fetch resolves with any status (the body JSON or not,
\* with a detail or with none, "" here), or rejects when the network fails.
PasswordResponses ==
    {[status |-> st, json |-> TRUE, detail |-> d]
        : st \in {"200", "400", "401", "500"}, d \in {"", ServiceDetail}}
    \cup {[status |-> st, json |-> FALSE, detail |-> ""] : st \in Statuses}

\* Mutant: the request is sent whether a token is stored or not.
ChangePasswordPage_hasToken_unchecked(token) == TRUE

\* handleSubmit's if (!token) after the form passed validation.
ChangePasswordPage_hasToken(token) == Truthy(token)

\* handleSubmit up to its await; the submit button is disabled while isLoading.
ChangePasswordPage_handleSubmit ==
    /\ route = "/change-password"
    /\ ~view.loading
    /\ \E formData \in FormData :
        LET newErrors == validateForm(formData)
            token == getItem(localStorage, "access_token") IN
        IF newErrors # NoErrors
        THEN /\ view' = [view EXCEPT !.errors = newErrors]
             /\ last' = Step("ChangePasswordPage.handleSubmit", "invalid", "none", Null)
             /\ UNCHANGED <<route, tasks>>
        ELSE IF ~ChangePasswordPage_hasToken(token)
        THEN LET nav == push("/login", route, view, tasks) IN
             /\ route' = nav.route
             /\ view' = nav.view
             /\ tasks' = nav.tasks
             /\ last' = Step("ChangePasswordPage.handleSubmit", "noToken", "none", Null)
        ELSE /\ CanSend
             /\ view' = [view EXCEPT !.errors = newErrors, !.loading = TRUE, !.message = ""]
             /\ tasks' = Send(tasks, Task("ChangePasswordPage.handleSubmit", "put", token, Null))
             /\ last' = Step("ChangePasswordPage.handleSubmit", "sent", "none", Null)
             /\ UNCHANGED route
    /\ UNCHANGED ctl_vars

\* Mutant: a 400 is reported like every other failure, with the message.
ChangePasswordPage_settle_generic(resp, v) ==
    IF resp.status = "network" \/ ~resp.json
    THEN [v EXCEPT !.message = "network error", !.loading = FALSE]
    ELSE IF resp.status = "200"
    THEN [v EXCEPT !.message = "updated", !.loading = FALSE]
    ELSE [v EXCEPT !.message = "update failed", !.loading = FALSE]

\* What the settled PUT leaves on the page.
ChangePasswordPage_settle(resp, v) ==
    IF resp.status = "network" \/ ~resp.json
    THEN [v EXCEPT !.message = "network error", !.loading = FALSE]
    ELSE IF resp.status = "200"
    THEN [v EXCEPT !.message = "updated", !.loading = FALSE]
    ELSE IF resp.status = "400"
    THEN [v EXCEPT !.errors = [NoErrors EXCEPT !.oldPassword =
                                  IF resp.detail # "" THEN resp.detail ELSE "update failed"],
                   !.loading = FALSE]
    ELSE [v EXCEPT !.message = "update failed", !.loading = FALSE]

\* PUT /auth/password settles; on success a timer is set for the dashboard.
ChangePasswordPage_handleSubmit_response(t) ==
    /\ t.kind = "ChangePasswordPage.handleSubmit"
    /\ t.pc = "put"
    /\ \E resp \in PasswordResponses :
        /\ view' = IF t.live THEN ChangePasswordPage_settle(resp, view) ELSE view
        /\ tasks' = IF resp.status = "200" /\ resp.json
                    THEN Send(Settle(tasks, t), [t EXCEPT !.pc = "timer"])
                    ELSE Settle(tasks, t)
        /\ last' = Step("ChangePasswordPage.handleSubmit", "settled", PasswordOutcome(resp), Null)
    /\ UNCHANGED <<ctl_vars, route>>

\* The success timer fires: router.push('/home').
ChangePasswordPage_timeout(t) ==
    /\ t.kind = "ChangePasswordPage.handleSubmit"
    /\ t.pc = "timer"
    /\ LET nav == push("/home", route, view, Settle(tasks, t)) IN
        /\ route' = nav.route
        /\ view' = nav.view
        /\ tasks' = nav.tasks
    /\ last' = Step("ChangePasswordPage.handleSubmit", "timer", "none", Null)
    /\ UNCHANGED ctl_vars

\* The cancel button: router.push('/home').
ChangePasswordPage_cancel ==
    /\ route = "/change-password"
    /\ LET nav == push("/home", route, view, tasks) IN
        /\ route' = nav.route
        /\ view' = nav.view
        /\ tasks' = nav.tasks
    /\ last' = Step("ChangePasswordPage.cancel", "/home", "none", Null)
    /\ UNCHANGED ctl_vars

----------------------------------------------------------------------------
(* The whole frontend *)

NextView ==
    \/ Login_handleSubmit
    \/ \E t \in InFlight : Login_handleSubmit_response(t)
    \/ HomePage_mount
    \/ \E t \in InFlight : HomePage_fetchUserInfo_response(t)
    \/ HomePage_handleLogout
    \/ Navbar_handleLogout
    \/ \E t \in InFlight : handleLogout_response(t)
    \/ Navbar_mount
    \/ \E t \in InFlight : Navbar_fetchUserInfo_response(t)
    \/ \E r \in {"/home", "/change-password"} : Navbar_push(r)
    \/ ChangePasswordPage_handleSubmit
    \/ \E t \in InFlight : ChangePasswordPage_handleSubmit_response(t)
    \/ \E t \in InFlight : ChangePasswordPage_timeout(t)
    \/ ChangePasswordPage_cancel

\* The AuthProvider and the pages side by side on one localStorage.
Next == NextCtl \/ NextView

Spec == Init /\ [][Next]_vars

----------------------------------------------------------------------------
(* Properties *)

StoreEmpty ==
    /\ getItem(localStorage, "access_token") = Null
    /\ getItem(localStorage, "refresh_token") = Null

LogoutKinds == {"logout", "Navbar.handleLogout", "HomePage.handleLogout"}

\* C1: once a logout (the AuthProvider's, the Navbar's or the dashboard's) has
\* finished, localStorage holds neither access_token nor refresh_token,
\* whether the revoke call succeeded, returned an error status or got no
\* response.
C1_LogoutEmptiesStore ==
    (last.op \in LogoutKinds /\ last.ev = "finished") => StoreEmpty

\* A logout whose revoke call failed at the network level has finished.
C1_Witness ==
    /\ last = Step("logout", "finished", "network", Null)
    /\ StoreEmpty

\* C2: an identity fetch sent before a logout and settling after it
\* repopulates neither the cached user nor the stored tokens.
C2_StaleRefreshDiscarded ==
    [][last'.ev = "staleMe" =>
        /\ user = Null => user' = Null
        /\ \A k \in {"access_token", "refresh_token"} :
            getItem(localStorage, k) = Null => getItem(localStorage', k) = Null]_vars

\* C3: a cached user implies a stored access token.
C3_UserImpliesSession ==
    Truthy(user) => Truthy(getItem(localStorage, "access_token"))

\* C4: while a logout's revoke call is pending, localStorage is already
\* cleared.
C4_LogoutClearsBeforeRevokeSettles ==
    \A t \in InFlight : (t.kind \in LogoutKinds /\ t.pc = "revoke") => StoreEmpty

\* The calls that carry the bearer token and can be answered 401: the identity
\* fetches and the password change.
AuthenticatedCallSettled ==
    /\ last.op \in {"bootstrap", "login", "HomePage.fetchUserInfo", "Navbar.fetchUserInfo",
                    "ChangePasswordPage.handleSubmit"}
    /\ last.ev \in {"me", "staleMe", "settled"}

\* C5: after any authenticated call was answered 401, the cached user and the
\* stored tokens are gone (the claim adds the redirect to /login).
C5_UnauthorizedInvalidates ==
    (AuthenticatedCallSettled /\ last.resp = "401") => (StoreEmpty /\ user = Null)

BootstrapSent == last.op = "bootstrap" /\ last.ev = "sent"

C7_OnlyUnauthorizedInvalidates ==
    (last.op = "bootstrap" /\ last.ev \in {"me", "staleMe"}) =>
        IF last.resp = "401"
        THEN StoreEmpty /\ SessionState = "unauthenticated"
        ELSE ~StoreEmpty /\ SessionState = "authenticated"

\* The step was a mount effect of kind op: fetchUser / fetchUserInfo up to its
\* await or its early return.
MountStep(op) == last.op = op /\ last.ev \in {"noToken", "sent"}
NoToken == ~Truthy(getItem(localStorage, "access_token"))

\* C8: a mount effect that finds no access token sends no request: the
\* AuthProvider's leaves the state unauthenticated with no identity fetch in
\* flight, the dashboard's redirects to /login, the Navbar's does nothing.
C8_NoSessionNoRequest ==
    /\ (MountStep("bootstrap") /\ NoToken) =>
            /\ SessionState = "unauthenticated"
            /\ \A t \in InFlight : t.kind # "bootstrap"
    /\ (MountStep("HomePage.fetchUserInfo") /\ NoToken) =>
            /\ route = "/login"
            /\ \A t \in InFlight : ~(t.kind = "HomePage.fetchUserInfo" /\ t.live)
    /\ (MountStep("Navbar.fetchUserInfo") /\ NoToken) =>
            \A t \in InFlight : ~(t.kind = "Navbar.fetchUserInfo" /\ t.live)

\* The AuthProvider mounted on an empty localStorage.
C8_Witness ==
    /\ last = Step("bootstrap", "noToken", "none", Null)
    /\ StoreEmpty
    /\ SessionState = "unauthenticated"
    /\ \A t \in InFlight : t.pc # "me"

\* A POST /auth/login of the AuthProvider or the login page has settled.
LoginSettled(l) ==
    /\ l.op \in {"login", "Login.handleSubmit"}
    /\ l.ev \in {"stored", "false", "threw", "ignored", "failed"}

\* C9: a login attempt that fails (rejected, no response, or a body without
\* access_token) leaves both stored values as they were.
C9_FailedLoginKeepsStore ==
    [][(LoginSettled(last') /\ last'.resp # "200") => localStorage' = localStorage]_vars

\* Rejected credentials, with the earlier session still stored.
C9_Witness ==
    /\ last = Step("login", "threw", "401", Null)
    /\ localStorage = [access_token |-> AccessToken(1), refresh_token |-> RefreshToken(1)]

\* C10: after login received a pair, localStorage holds exactly that pair and
\* the identity fetch is in flight with its access token as the bearer; when
\* that fetch returns a record, user is that record.
C10_LoginStoresPairAndFetches ==
    /\ (last.op = "login" /\ last.ev = "stored") =>
            \E s \in Sessions :
                /\ last.data = AccessToken(s)
                /\ localStorage = [access_token |-> AccessToken(s),
                                   refresh_token |-> RefreshToken(s)]
                /\ \E t \in InFlight :
                    t.kind = "login" /\ t.pc = "me" /\ t.bearer = AccessToken(s)
    /\ (last.op = "login" /\ last.ev \in {"me", "staleMe"} /\ last.resp = "200") =>
            (user = last.data /\ user \in Users)

\* login stored the pair of session 1 and its identity fetch returned the
\* record of that token.
C10_Witness ==
    /\ last = Step("login", "me", "200", UserRecord(AccessToken(1)))
    /\ user = UserRecord(AccessToken(1))
    /\ localStorage = [access_token |-> AccessToken(1), refresh_token |-> RefreshToken(1)]

\* The identity fetch that login awaited has settled in the step to l.
LoginFetchSettled(l) == l.op = "login" /\ l.ev \in {"me", "staleMe"}

\* C11: whatever the outcome of the identity fetch login awaits, the step in
\* which it settles (after which login returns true) leaves the stored pair
\* as login stored it.
C11_RefreshNeverUndoesLogin ==
    [][LoginFetchSettled(last') => localStorage' = localStorage]_vars

\* The dashboard has resolved (its mount effect has run and loading is false)
\* with an access token stored.
HomePage_resolvedWithToken ==
    route = "/home" /\ ~view.effect /\ ~view.loading /\ ~NoToken

\* C12: whenever the state is resolved (not loading) and an access token is
\* stored, the AuthProvider reports authenticated; and whenever the dashboard
\* has resolved with an access token stored, it shows its content.
C12_SessionAloneGatesAccess ==
    /\ (~loading /\ ~NoToken) => isAuthenticated
    /\ HomePage_resolvedWithToken => HomePage_content

\* The dashboard's identity fetch is in flight and the dashboard still mounted.
HomePage_fetching ==
    \E t \in InFlight : t.kind = "HomePage.fetchUserInfo" /\ t.pc = "me" /\ t.live

\* C13: while the dashboard's identity fetch for a stored token is in flight,
\* the dashboard shows its loading state, not its content, and the dashboard
\* issues no redirect: the location changes only when that fetch settles, or
\* when a logout started earlier finishes.
C13_NoCommitWhilePending ==
    [][HomePage_fetching =>
        /\ route = "/home" /\ view.loading /\ ~HomePage_content
        /\ route' # route =>
                \/ last'.op = "HomePage.fetchUserInfo" /\ last'.ev = "me"
                \/ last'.op \in LogoutKinds /\ last'.ev = "finished"]_vars

\* The dashboard was opened with the pair of session 1 stored and waits for
\* GET /auth/me.
C13_Witness ==
    /\ HomePage_fetching
    /\ last = Step("HomePage.fetchUserInfo", "sent", "none", Null)
    /\ getItem(localStorage, "access_token") = AccessToken(1)
    /\ route = "/home" /\ view.loading

\* C14: once the mount effects of a protected page (the dashboard's
\* fetchUserInfo; on the password page the Navbar's, the page having none of
\* its own) have run with no access token stored, the location is /login.
C14_ProtectedViewsRedirect ==
    /\ (MountStep("HomePage.fetchUserInfo") /\ NoToken) => route = "/login"
    /\ (MountStep("Navbar.fetchUserInfo") /\ NoToken) => route = "/login"

\* The session state the AuthProvider would report in the next state.
SessionStateOf(l, u) ==
    IF l THEN "unknown"
    ELSE IF Truthy(u) THEN "authenticated" ELSE "unauthenticated"

\* C15: the AuthProvider's session state changes only along the listed
\* transitions: out of unknown when a fetchUser of the mount effect (or of a
\* login) finishes; from authenticated to unauthenticated by a finished logout
\* or an identity fetch answered 401; from unauthenticated to authenticated
\* when the identity fetch of a login (with no logout since) returns a user;
\* never back to unknown.
C15_OnlyListedTransitions ==
    [][LET from == SessionState
           to == SessionStateOf(loading', user') IN
       from # to =>
           /\ to # "unknown"
           /\ from = "unknown" => last'.op \in {"bootstrap", "login"}
           /\ (from = "authenticated" /\ to = "unauthenticated") =>
                \/ last'.op = "logout" /\ last'.ev = "finished"
                \/ last'.ev \in {"me", "staleMe"} /\ last'.resp = "401"
           /\ (from = "unauthenticated" /\ to = "authenticated") =>
                (last'.op = "login" /\ last'.ev = "me" /\ last'.resp = "200")]_vars

\* C16: every write or removal of access_token / refresh_token is made by the
\* AuthProvider's login, logout or fetchUser (its 401 branch); no page and no
\* Navbar step changes localStorage.
C16_SingleWriter ==
    [][localStorage' # localStorage => last'.op \in {"login", "logout", "bootstrap"}]_vars

\* The AuthError class of a failed login: rejected credentials, or a fault of
\* the network or the service (a malformed response included).
AuthErrorOf(outcome) == IF outcome = "401" THEN "InvalidCredentials" ELSE "Unreachable"

\* C17: after a failed login the login page shows an error, and the error it
\* shows tells the cause: no failure of the other class would have produced
\* the same error.
C17_LoginErrorClassified ==
    (last.op = "Login.handleSubmit" /\ last.ev \in {"failed", "ignored"} /\ route = "/login") =>
        /\ view.error # ""
        /\ \A resp \in LoginResponses :
            (~Login_accepted(resp) /\ AuthErrorOf(LoginOutcome(resp)) # AuthErrorOf(last.resp))
                => Login_catch(resp, "") # view.error

\* The password page's PUT /auth/password is in flight and the page still
\* mounted.
ChangePasswordPage_submitting ==
    \E t \in InFlight : t.kind = "ChangePasswordPage.handleSubmit" /\ t.pc = "put" /\ t.live

\* An authenticated call of kind op has been answered 401 in the step to l.
Unauthorized(l, op) == l.op = op /\ l.ev \in {"me", "staleMe", "settled"} /\ l.resp = "401"

\* C18: when an authenticated call of a page is answered 401, the page shows
\* no error afterwards: the dashboard no error text, the password page neither
\* a message nor a field error.
C18_UnauthorizedNotSurfaced ==
    [][/\ (HomePage_fetching /\ Unauthorized(last', "HomePage.fetchUserInfo")) =>
            view'.error = ""
       /\ (ChangePasswordPage_submitting /\ Unauthorized(last', "ChangePasswordPage.handleSubmit")) =>
            (view'.message = "" /\ view'.errors = NoErrors)]_vars

\* The unauthorized invalidation: fetchUser's catch block on a 401, applied to
\* a session (the stored tokens and the cached user).
invalidateOnUnauthorized(session) ==
    fetchUser_settle([status |-> "401", data |-> Null], session.localStorage, session.user)

\* C19: the unauthorized invalidation is idempotent.  Applied to the session
\* of any reachable state, twice gives what once gives; applied to a session
\* that is already unauthenticated (no tokens, no user) it changes nothing;
\* and the state an identity fetch answered 401 leaves is one it would not
\* change.
C19_InvalidationIdempotent ==
    LET session == [localStorage |-> localStorage, user |-> user]
        once == invalidateOnUnauthorized(session)
    IN  /\ invalidateOnUnauthorized(once) = once
        /\ (StoreEmpty /\ user = Null) => once = session
        /\ (Unauthorized(last, "bootstrap") \/ Unauthorized(last, "login")) => once = session

\* An identity fetch sent before a logout was answered 401 after it: the
\* invalidation ran on a session that was already unauthenticated.
C19_Witness ==
    /\ last = Step("bootstrap", "staleMe", "401", Null)
    /\ StoreEmpty
    /\ user = Null

\* C20: the unknown state is transient.  When every identity request sent
\* is answered, loading becomes false, the state is from then on
\* authenticated or unauthenticated, and it stays resolved.
C20_UnknownIsTransient == <>[](SessionState \in {"authenticated", "unauthenticated"})

\* The mount effect's identity fetch got no response and the state resolved.
C20_Witness ==
    /\ last = Step("bootstrap", "me", "network", Null)
    /\ ~loading
    /\ SessionState = "unauthenticated"

\* C21: in every reachable state the stored access_token and refresh_token
\* are both absent or are the pair of one login response: no interleaving of
\* logins, logouts and 401 invalidations leaves one token without the other,
\* or the access token of one login beside the refresh token of another.
C21_StoreHoldsWholePair == localStorage \in PersistedStorage

\* An account switch: the user of session 1 is still cached and login has
\* replaced the stored pair by that of session 2.
C21_Witness ==
    /\ last = Step("login", "stored", "200", AccessToken(2))
    /\ user = UserRecord(AccessToken(1))
    /\ localStorage = [access_token |-> AccessToken(2), refresh_token |-> RefreshToken(2)]

\* A POST /auth/login of the AuthProvider that is in flight.
LoginPost == Task("login", "post", Null, Null)

\* C22: concurrent logins are not deduplicated and the last write wins.  When
\* two login exchanges are in flight and one of them succeeds, localStorage
\* holds the pair of that response, whatever was stored before, and the other
\* exchange is still in flight, to write its own pair when it succeeds.
C22_LastLoginWins ==
    [][(CopiesIn(LoginPost, tasks) >= 2 /\ last'.op = "login" /\ last'.ev = "stored") =>
        /\ \E s \in Sessions :
            /\ last'.data = AccessToken(s)
            /\ localStorage' = [access_token |-> AccessToken(s),
                                refresh_token |-> RefreshToken(s)]
        /\ CopiesIn(LoginPost, tasks') = CopiesIn(LoginPost, tasks) - 1]_vars

\* Two login exchanges were in flight: the first stored the pair of session 1
\* and still awaits its identity fetch; the second has now stored the pair of
\* session 2 over it.
C22_Witness ==
    /\ last = Step("login", "stored", "200", AccessToken(2))
    /\ localStorage = [access_token |-> AccessToken(2), refresh_token |-> RefreshToken(2)]
    /\ \E t \in InFlight : t.kind = "login" /\ t.pc = "me" /\ t.bearer = AccessToken(1)
    /\ \E t \in InFlight : t.kind = "login" /\ t.pc = "me" /\ t.bearer = AccessToken(2)

\* An authenticated call has been answered 401 in the step to l.
UnauthorizedCall(l) ==
    \E op \in {"bootstrap", "login", "HomePage.fetchUserInfo", "Navbar.fetchUserInfo",
               "ChangePasswordPage.handleSubmit"} : Unauthorized(l, op)

\* C23: a call answered 401 is not retried.  The step that handles the 401
\* ends the call and sends no request: one call fewer is in flight after it.
C23_UnauthorizedNotRetried ==
    [][UnauthorizedCall(last') => BagCardinality(tasks') = BagCardinality(tasks) - 1]_vars

\* The dashboard's identity fetch was answered 401: the dashboard went to
\* /login and nothing is in flight.
C23_Witness ==
    /\ last = Step("HomePage.fetchUserInfo", "me", "401", Null)
    /\ route = "/login"
    /\ tasks = EmptyBag

\* The step settles the PUT /auth/password of the password page on screen.
ChangePasswordPage_settled ==
    /\ last'.op = "ChangePasswordPage.handleSubmit"
    /\ last'.ev = "settled"
    /\ \E t \in InFlight :
        /\ t.kind = "ChangePasswordPage.handleSubmit" /\ t.pc = "put" /\ t.live
        /\ CopiesIn(t, tasks') < CopiesIn(t, tasks)

\* C24: a password change answered 400 is shown inline, the field error of
\* the old password being the detail of the response (a fixed text when the
\* body has none) and no message set; every other failure (another error
\* status, no response, a body that cannot be read) sets a failure message
\* and leaves the field errors alone; in every case isLoading is false after.
C24_PasswordChangeFailureReported ==
    [][ChangePasswordPage_settled =>
        /\ ~view'.loading
        /\ last'.resp = "400" =>
                (view'.errors.oldPassword = ServiceDetail /\ view'.message = "")
        /\ last'.resp = "400 without detail" =>
                (view'.errors.oldPassword = "update failed" /\ view'.message = "")
        /\ last'.resp \in {"401", "500", "network", "400 not JSON"} =>
                /\ view'.message \in {"update failed", "network error"}
                /\ view'.errors = view.errors]_vars

\* A valid form was submitted and answered 400 with a detail: the detail is
\* the field error and the page is not busy.
C24_Witness ==
    /\ last = Step("ChangePasswordPage.handleSubmit", "settled", "400", Null)
    /\ route = "/change-password"
    /\ view.errors = [NoErrors EXCEPT !.oldPassword = ServiceDetail]
    /\ view.message = ""
    /\ ~view.loading

\* The step settles, with the answer 401, an identity fetch of the
\* AuthProvider that was sent with a token other than the one now stored.
StaleTokenUnauthorized ==
    /\ last'.op \in {"bootstrap", "login"}
    /\ last'.ev \in {"me", "staleMe"}
    /\ last'.resp = "401"
    /\ \E t \in InFlight :
        /\ t.kind = last'.op /\ t.pc = "me"
        /\ CopiesIn(t, tasks') < CopiesIn(t, tasks)
        /\ t.bearer # getItem(localStorage, "access_token")

\* C25: a 401 for an identity request sent with a token that a later login
\* has replaced leaves the pair now stored in place.
C25_StaleUnauthorizedKeepsSession ==
    [][(StaleTokenUnauthorized /\ ~NoToken) => localStorage' = localStorage]_vars

\* C26: a cached user is the record of the access token now stored: the
\* AuthProvider's user, and the user the dashboard and the Navbar show.
C26_UserMatchesStoredToken ==
    LET token == getItem(localStorage, "access_token") IN
    /\ (Truthy(user) /\ Truthy(token)) => user = UserRecord(token)
    /\ (Truthy(view.user) /\ Truthy(token)) => view.user = UserRecord(token)
    /\ (Truthy(view.navUser) /\ Truthy(token)) => view.navUser = UserRecord(token)

\* The step is a call of logout or handleLogout up to its await, or through
\* to its end when it awaits nothing.
LogoutCalled(l) ==
    /\ l.op \in LogoutKinds
    /\ l.ev = "sent" \/ (l.ev = "finished" /\ l.resp = "none")

\* C27: a logout called with no access token stored sends no revoke request
\* and runs through at once: both tokens are (still) absent, the AuthProvider's
\* user is null after its logout, and the Navbar's and the dashboard's
\* handleLogout leave the location at /login.
C27_LogoutWithoutToken ==
    [][(NoToken /\ LogoutCalled(last')) =>
        /\ last'.ev = "finished"
        /\ BagCardinality(tasks') = BagCardinality(tasks)
        /\ \A k \in {"access_token", "refresh_token"} : getItem(localStorage', k) = Null
        /\ last'.op = "logout" => user' = Null
        /\ last'.op # "logout" => route' = "/login"]_vars

\* The Navbar's logout was clicked on the password page with nothing stored.
C27_Witness ==
    /\ last = Step("Navbar.handleLogout", "finished", "none", Null)
    /\ route = "/login"
    /\ StoreEmpty
    /\ tasks = EmptyBag

\* C28: the login page navigates only in the step in which it has stored
\* both tokens of a successful response, and that step leaves the location
\* at /home, the dashboard freshly mounted (unless it was on screen already)
\* with its session check still to run, and the pair stored; a session check that runs next finds the token and sends the
\* identity fetch.  A rejected login, or a response without access_token,
\* leaves the location and localStorage as they were.
C28_NavigateAfterPersist ==
    [][/\ (last'.op = "Login.handleSubmit" /\ last'.ev = "stored") =>
            /\ \E s \in Sessions :
                /\ last'.data = AccessToken(s)
                /\ localStorage' = [access_token |-> AccessToken(s),
                                    refresh_token |-> RefreshToken(s)]
            /\ route' = "/home"
            /\ route # "/home" => view' = Mount("/home")
       /\ (last'.op = "Login.handleSubmit" /\ last'.ev # "stored") =>
            (route' = route /\ localStorage' = localStorage)
       /\ (last.op = "Login.handleSubmit" /\ last.ev = "stored") =>
            ~(last'.op = "HomePage.fetchUserInfo" /\ last'.ev = "noToken")]_vars

\* The login page stored the pair of session 1 and went to the dashboard,
\* whose session check has yet to run.
C28_Witness ==
    /\ last = Step("Login.handleSubmit", "stored", "200", AccessToken(1))
    /\ route = "/home"
    /\ view.effect
    /\ localStorage = [access_token |-> AccessToken(1), refresh_token |-> RefreshToken(1)]

\* The step is a submission of the password form up to its await or its
\* early return.
PasswordSubmitted(l) ==
    l.op = "ChangePasswordPage.handleSubmit" /\ l.ev \in {"invalid", "noToken", "sent"}

\* C29 as claimed: no step of a password change whose outcome is not 401
\* changes localStorage, and every submission made with no access token stored
\* sends no request and goes to /login.
C29_SubmitWithoutTokenRedirects ==
    [][/\ (last'.op = "ChangePasswordPage.handleSubmit" /\ last'.resp # "401") =>
            localStorage' = localStorage
       /\ (NoToken /\ PasswordSubmitted(last')) =>
            (route' = "/login" /\ BagCardinality(tasks') = BagCardinality(tasks))]_vars

\* C29 as amended: no step of a password change whose outcome is not 401
\* changes localStorage; a submission made with no access token stored sends
\* no request; it goes to /login when the form passed validation, and stays
\* on the page showing the field errors when it did not.
C29_ValidSubmitWithoutTokenRedirects ==
    [][/\ (last'.op = "ChangePasswordPage.handleSubmit" /\ last'.resp # "401") =>
            localStorage' = localStorage
       /\ (NoToken /\ PasswordSubmitted(last')) =>
            /\ BagCardinality(tasks') = BagCardinality(tasks)
            /\ last'.ev \in {"invalid", "noToken"}
            /\ last'.ev = "noToken" => route' = "/login"
            /\ last'.ev = "invalid" => (route' = route /\ view'.errors # NoErrors)]_vars

\* A valid form was submitted with nothing stored: the page went to /login
\* and nothing was sent.
C29_Witness ==
    /\ last = Step("ChangePasswordPage.handleSubmit", "noToken", "none", Null)
    /\ route = "/login"
    /\ StoreEmpty
    /\ tasks = EmptyBag

====
